---------------------------- MODULE Spec2Model ----------------------------
(***************************************************************************)
(* SEC document scraper backend (backend/app.py): the /scrape handler, the *)
(* content validator, the filing-type classifier and the Firestore session *)
(* store (filings/{id}/scrape_sessions/{id}/sections/{id}).                *)
(*                                                                         *)
(* Text (URLs, section identifiers, extracted content) is a sequence of    *)
(* one-character strings, so that upper(), strip(), slicing, substring     *)
(* search and len() are computed, not assumed.  Error descriptions are     *)
(* tuples of strings (the pieces of the f-string).                         *)
(***************************************************************************)
EXTENDS Integers, Sequences, FiniteSets, TLC

(***************************************************************************)
(* Bounds of the model.                                                    *)
(***************************************************************************)
\* Scrape requests handled in one behaviour (each may overlap the others).
MaxRuns == 2
\* utcnow() returns a tick from 0 to MaxTime; two ticks make one second.
MaxTime == 2
\* Longest reference handed to detect_filing_type in a direct call.
MaxUrlLen == 5

(***************************************************************************)
(* Text helpers: Python str operations on character sequences.             *)
(***************************************************************************)
Lowers == <<"a","b","c","d","e","f","g","h","i","j","k","l","m",
            "n","o","p","q","r","s","t","u","v","w","x","y","z">>
Uppers == <<"A","B","C","D","E","F","G","H","I","J","K","L","M",
            "N","O","P","Q","R","S","T","U","V","W","X","Y","Z">>

UpperChar(ch) ==
    IF \E i \in 1..26 : Lowers[i] = ch
    THEN Uppers[CHOOSE i \in 1..26 : Lowers[i] = ch]
    ELSE ch

LowerChar(ch) ==
    IF \E i \in 1..26 : Uppers[i] = ch
    THEN Lowers[CHOOSE i \in 1..26 : Uppers[i] = ch]
    ELSE ch

\* str.upper() and str.lower()
Upper(s) == [i \in 1..Len(s) |-> UpperChar(s[i])]
Lower(s) == [i \in 1..Len(s) |-> LowerChar(s[i])]

\* "pat in s": substring test
Contains(s, pat) ==
    \E i \in 0..(Len(s) - Len(pat)) :
        \A j \in 1..Len(pat) : s[i + j] = pat[j]

Whitespace == {" ", "\t", "\n", "\r"}

\* str.strip()
Strip(s) ==
    LET keep == {i \in 1..Len(s) : s[i] \notin Whitespace}
    IN  IF keep = {} THEN <<>>
        ELSE LET lo == CHOOSE i \in keep : \A j \in keep : i <= j
                 hi == CHOOSE i \in keep : \A j \in keep : j <= i
             IN  SubSeq(s, lo, hi)

\* s[:n]
Prefix(s, n) == IF Len(s) > n THEN SubSeq(s, 1, n) ELSE s

\* s.split('-')[0]
SplitDashFirst(s) ==
    LET dashes == {i \in 1..Len(s) : s[i] = "-"}
    IN  IF dashes = {} THEN s
        ELSE SubSeq(s, 1, (CHOOSE i \in dashes : \A j \in dashes : i <= j) - 1)

\* dict.get(key, default)
Get(d, key, default) == IF key \in DOMAIN d THEN d[key] ELSE default

\* the elements of a list, as a set
Range(s) == {s[i] : i \in 1..Len(s)}

(***************************************************************************)
(* Literals of the program, as character sequences.                        *)
(***************************************************************************)
ITEM == <<"I","T","E","M"," ">>
Dots == <<".",".",".">>

\* section identifiers used by the requests of the model
S_1A == <<"1","A">>
S_7  == <<"7">>

\* filing references used by the requests of the model
U_10K   == <<"s","e","c",".","g","o","v","/","a","-","1","0","k">>
U_8K    == <<"s","e","c",".","g","o","v","/","b","8","-","K">>
U_OTHER == <<"e","v","i","l",".","c","o","m","/","1","0","k">>
U_10Q   == <<"s","e","c",".","g","o","v","/","c","-","1","0","q">>
\* a reference to another host whose path spells sec.gov
U_FAKE  == <<"x",".","c","o","/","s","e","c",".","g","o","v">>

\* texts the extractor returns in the model
T_1A    == <<"I","t","e","m"," ","1","a",".">>
T_7     == <<"I","T","E","M"," ","7",".">>
T_BLANK == <<" ","\n">>

\* the length the caller-facing content is cut to (line 490)
DisplayLimit == 500

\* item 7 texts of exactly DisplayLimit characters and of one more
T_LIMIT == [i \in 1..DisplayLimit |-> IF i <= Len(T_7) THEN T_7[i] ELSE "x"]
T_LONG  == [i \in 1..(DisplayLimit + 1) |->
               IF i <= Len(T_7) THEN T_7[i] ELSE "x"]

\* header markers of validate_section_content
H_BUSINESS ==
    <<"B","U","S","I","N","E","S","S">>
H_RISK ==
    <<"R","I","S","K"," ","F","A","C","T","O","R","S">>
H_UNRESOLVED ==
    <<"U","N","R","E","S","O","L","V","E","D"," ","S","T","A","F",
      "F"," ","C","O","M","M","E","N","T","S">>
H_PROPERTIES ==
    <<"P","R","O","P","E","R","T","I","E","S">>
H_LEGAL ==
    <<"L","E","G","A","L"," ","P","R","O","C","E","E","D","I","N",
      "G","S">>
H_MDA ==
    <<"M","A","N","A","G","E","M","E","N","T","'","S"," ","D","I",
      "S","C","U","S","S","I","O","N">>
H_QUANT ==
    <<"Q","U","A","N","T","I","T","A","T","I","V","E"," ","A","N",
      "D"," ","Q","U","A","L","I","T","A","T","I","V","E">>
H_PART_I ==
    <<"P","A","R","T"," ","I">>
H_ITEM_1 ==
    <<"I","T","E","M"," ","1">>
H_ITEM_2 ==
    <<"I","T","E","M"," ","2">>
H_FINSTAT ==
    <<"F","I","N","A","N","C","I","A","L"," ","S","T","A","T","E",
      "M","E","N","T","S">>
H_PART ==
    <<"P","A","R","T">>
H_ITEM ==
    <<"I","T","E","M">>
P1I1 ==
    <<"p","a","r","t","1","i","t","e","m","1">>
P1I2 ==
    <<"p","a","r","t","1","i","t","e","m","2">>

(***************************************************************************)
(* Python values that may be None.                                         *)
(***************************************************************************)
None   == [kind |-> "none"]
Str(s) == [kind |-> "str", text |-> s]
\* truthiness of an optional string: neither None nor ''
Truthy(v) == v.kind = "str" /\ Len(v.text) > 0

(***************************************************************************)
(* Pure functions of the program.                                          *)
(***************************************************************************)
\* hashlib.md5(url.encode()).hexdigest()[:12], tabulated for the model's
\* references (the digests are those md5 gives)
generate_filing_id(url) ==
    CASE url = U_10K   -> "dc26d3602a47"
      [] url = U_8K    -> "123333c55157"
      [] url = U_OTHER -> "125a32061c57"
      [] url = U_FAKE  -> "339d88af0fed"

\* utcnow().strftime("%Y-%m-%d_%H-%M-%S") at clock tick t: the time cut to
\* whole seconds (two ticks a second)
generate_session_id(t) == t \div 2

\* re.search(r'<digits>-?<letter>', url, re.IGNORECASE)
SearchKind(url, digits, letter) ==
    \/ Contains(Upper(url), digits \o <<letter>>)
    \/ Contains(Upper(url), digits \o <<"-", letter>>)

\* detect_filing_type testing the kinds in the order 8-K, 10-K, 10-Q
detect_filing_type_8k_first(url) ==
    IF SearchKind(url, <<"8">>, "K") THEN "8-K"
    ELSE IF SearchKind(url, <<"1","0">>, "K") THEN "10-K"
    ELSE IF SearchKind(url, <<"1","0">>, "Q") THEN "10-Q"
    ELSE "10-K"

detect_filing_type(url) ==
    IF SearchKind(url, <<"1","0">>, "K") THEN "10-K"
    ELSE IF SearchKind(url, <<"1","0">>, "Q") THEN "10-Q"
    ELSE IF SearchKind(url, <<"8">>, "K") THEN "8-K"
    ELSE "10-K"

\* expected_headers of validate_section_content
ExpectedHeaders(requested_section, filing_type) ==
    IF filing_type = "10-K" THEN
        IF requested_section = <<"1">> THEN
            <<ITEM \o <<"1",".">>, ITEM \o <<"1"," ">>, H_BUSINESS>>
        ELSE IF requested_section = <<"1","A">> THEN
            <<ITEM \o <<"1","A",".">>, ITEM \o <<"1","A"," ">>, H_RISK>>
        ELSE IF requested_section = <<"1","B">> THEN
            <<ITEM \o <<"1","B",".">>, ITEM \o <<"1","B"," ">>, H_UNRESOLVED>>
        ELSE IF requested_section = <<"2">> THEN
            <<ITEM \o <<"2",".">>, ITEM \o <<"2"," ">>, H_PROPERTIES>>
        ELSE IF requested_section = <<"3">> THEN
            <<ITEM \o <<"3",".">>, ITEM \o <<"3"," ">>, H_LEGAL>>
        ELSE IF requested_section = <<"7">> THEN
            <<ITEM \o <<"7",".">>, ITEM \o <<"7"," ">>, H_MDA>>
        ELSE IF requested_section = <<"7","A">> THEN
            <<ITEM \o <<"7","A",".">>, ITEM \o <<"7","A"," ">>, H_QUANT>>
        ELSE
            <<ITEM \o requested_section \o <<".">>,
              ITEM \o requested_section \o <<" ">> >>
    ELSE IF filing_type = "10-Q" THEN
        IF Contains(Lower(requested_section), P1I1) THEN
            <<H_PART_I, H_ITEM_1, H_FINSTAT>>
        ELSE IF Contains(Lower(requested_section), P1I2) THEN
            <<H_ITEM_2, H_MDA>>
        ELSE
            <<H_PART, H_ITEM>>
    ELSE IF filing_type = "8-K" THEN
        LET item_num == IF Contains(requested_section, <<"-">>)
                        THEN SplitDashFirst(requested_section)
                        ELSE requested_section
        IN  <<ITEM \o item_num, ITEM \o requested_section>>
    ELSE <<>>

\* validate_section_content comparing the text as it is written
validate_section_content_cased(content, requested_section, filing_type) ==
    IF ~Truthy(content) THEN FALSE
    ELSE LET expected_headers == ExpectedHeaders(requested_section, filing_type)
         IN  IF Len(expected_headers) > 0
             THEN \E h \in 1..Len(expected_headers) :
                      Contains(content.text, expected_headers[h])
             ELSE TRUE

\* validate_section_content rejecting what it has no rules for
validate_section_content_strict(content, requested_section, filing_type) ==
    IF ~Truthy(content) THEN FALSE
    ELSE LET content_upper    == Upper(content.text)
             expected_headers == ExpectedHeaders(requested_section, filing_type)
         IN  \E h \in 1..Len(expected_headers) :
                 Contains(content_upper, expected_headers[h])

\* content: an optional string
validate_section_content(content, requested_section, filing_type) ==
    IF ~Truthy(content) THEN FALSE
    ELSE LET content_upper    == Upper(content.text)
             expected_headers == ExpectedHeaders(requested_section, filing_type)
         IN  IF Len(expected_headers) > 0
             THEN \E h \in 1..Len(expected_headers) :
                      Contains(content_upper, expected_headers[h])
             ELSE TRUE

(***************************************************************************)
(* Inputs of the model.                                                    *)
(***************************************************************************)
Runs == 1..MaxRuns

\* data.get('filing_url'): missing, an SEC reference, another reference
RequestUrls == {None, Str(U_10K), Str(U_8K), Str(U_OTHER)}

\* data.get('sections', []): missing or empty, one identifier, a repeated
\* identifier, two identifiers
RequestSections == {<<>>, <<S_1A>>, <<S_1A, S_1A>>, <<S_7, S_1A>>}

\* extractor.get_section(url, section_id, "text"): raises, or returns None,
\* an empty text, a whitespace-only text, or a text
Raise(msg)    == [kind |-> "raise", msg |-> msg]
Return(value) == [kind |-> "return", value |-> value]
NoOutcome     == [kind |-> "no call"]
\* what the provider may do for a document and a section: the document
\* behind U_8K always yields the same text; for the one behind U_10K item 7
\* is served or the call fails, and for item 1A anything may happen
ExtractorOutcomes(url, section_id) ==
    IF url = U_8K THEN {Return(Str(T_7))}
    ELSE IF section_id = S_7 THEN {Raise("API error"), Return(Str(T_7))}
    ELSE {Raise("API error")} \cup
         {Return(v) :
             v \in {None, Str(<<>>), Str(T_BLANK), Str(T_1A), Str(T_7)}}

(***************************************************************************)
(* State.                                                                  *)
(***************************************************************************)
VARIABLES
    FIRESTORE_AVAILABLE, \* the module-level flag set at import
    now,                 \* the latest reading of the clock, in ticks
    filings,             \* filings/{filing_id}: document id -> fields
    scrape_sessions,     \* .../scrape_sessions/{session_id}: path -> fields
    section_docs,        \* .../sections/{section_id}: path -> fields
    run,                 \* per request: the handler's position and locals
    response,            \* per request: what the handler returned
    request,             \* history: the accepted request of each run
    extractor_calls,     \* history: how often each run called the extractor
    last_outcome,        \* history: what the latest of these calls did
    validator_calls,     \* history: how often each run called the validator
    call,                \* a direct call of a pure function and its result
    written              \* history: the store documents each run wrote

vars == <<FIRESTORE_AVAILABLE, now, filings, scrape_sessions, section_docs,
          run, response, request, extractor_calls, last_outcome,
          validator_calls, call, written>>

\* the locals of a handler that is not running
NoLocals ==
    [pc |-> "idle", url |-> <<>>, sections |-> <<>>, filing_type |-> "",
     idx |-> 0, results_for_storage |-> <<>>, results_for_display |-> <<>>,
     successful |-> 0, failed |-> 0,
     filing_id |-> "", session_id |-> 0, timestamp |-> 0,
     exists |-> FALSE, existing_unique |-> 0,
     existing_sessions |-> {}, all_unique_sections |-> {}]

NoResponse == [status |-> 0]
NoRequest  == [url |-> <<>>, sections |-> <<>>]
NoCall     == [fn |-> "none"]

Init ==
    /\ FIRESTORE_AVAILABLE \in BOOLEAN
    /\ now = 0
    /\ filings = <<>>
    /\ scrape_sessions = <<>>
    /\ section_docs = <<>>
    /\ run = [r \in Runs |-> NoLocals]
    /\ response = [r \in Runs |-> NoResponse]
    /\ request = [r \in Runs |-> NoRequest]
    /\ extractor_calls = [r \in Runs |-> 0]
    /\ last_outcome = [r \in Runs |-> NoOutcome]
    /\ validator_calls = [r \in Runs |-> 0]
    /\ call = NoCall
    /\ written = [r \in Runs |-> {}]

\* document.set(data): create or replace the document at key
SetDoc(coll, key, data) ==
    [k \in DOMAIN coll \cup {key} |-> IF k = key THEN data ELSE coll[k]]

\* document.set(data, merge=True): the fields of data over those stored
MergeDoc(coll, key, data) ==
    IF key \in DOMAIN coll
    THEN SetDoc(coll, key,
                [f \in DOMAIN coll[key] \cup DOMAIN data |->
                    IF f \in DOMAIN data THEN data[f] ELSE coll[key][f]])
    ELSE SetDoc(coll, key, data)

(***************************************************************************)
(* scrape(): request validation, lines 420-445.                            *)
(***************************************************************************)
Request(r, filing_url, sections) ==
    /\ run[r].pc = "idle"
    \* runs are numbered in the order they start
    /\ IF r = 1 THEN TRUE ELSE run[r - 1].pc # "idle"
    /\ UNCHANGED <<call, validator_calls, FIRESTORE_AVAILABLE, now, filings, scrape_sessions,
                   section_docs, extractor_calls, last_outcome, written>>
    /\ IF ~Truthy(filing_url) THEN
            /\ response' = [response EXCEPT ![r] =
                   [status |-> 400, error |-> "Missing filing URL"]]
            /\ run' = [run EXCEPT ![r].pc = "done"]
            /\ UNCHANGED request
       ELSE IF Len(sections) = 0 THEN
            /\ response' = [response EXCEPT ![r] =
                   [status |-> 400, error |-> "No sections selected"]]
            /\ run' = [run EXCEPT ![r].pc = "done"]
            /\ UNCHANGED request
       ELSE IF ~Contains(filing_url.text, <<"s","e","c",".","g","o","v">>) THEN
            /\ response' = [response EXCEPT ![r] =
                   [status |-> 400,
                    error |-> "Please provide a valid SEC.gov URL"]]
            /\ run' = [run EXCEPT ![r].pc = "done"]
            /\ UNCHANGED request
       ELSE
            /\ run' = [run EXCEPT ![r] =
                   [NoLocals EXCEPT
                       !.pc = "extract",
                       !.url = filing_url.text,
                       !.sections = sections,
                       !.filing_type = detect_filing_type(filing_url.text),
                       !.idx = 1]]
            /\ request' = [request EXCEPT ![r] =
                   [url |-> filing_url.text, sections |-> sections]]
            /\ UNCHANGED response

(***************************************************************************)
(* scrape(): one iteration of the loop over the requested sections, lines  *)
(* 448-531.                                                                *)
(***************************************************************************)
ErrorData(section_id, error) ==
    [section |-> section_id, success |-> FALSE, error |-> error]

\* FullSectionData holding the content cut for display
FullSectionDataTruncated(section_id, section_content) ==
    [section |-> section_id, success |-> TRUE,
     content_length |-> Len(section_content),
     content |-> IF Len(section_content) > DisplayLimit
                 THEN Prefix(section_content, DisplayLimit) \o Dots
                 ELSE section_content]

FullSectionData(section_id, section_content) ==
    [section |-> section_id, success |-> TRUE,
     content_length |-> Len(section_content),
     content |-> section_content]

DisplaySectionData(section_id, section_content) ==
    [section |-> section_id, success |-> TRUE,
     content_length |-> Len(section_content),
     content |-> IF Len(section_content) > DisplayLimit
                 THEN Prefix(section_content, DisplayLimit) \o Dots
                 ELSE section_content]

MismatchError(section_id) ==
    <<"Section ", section_id,
      " not found in this document (API returned different section)">>

\* ProcessSection with the validator's verdict ignored
ProcessSectionUnvalidated(section_id, filing_type, out) ==
    IF out.kind = "raise" THEN
        [storage |-> ErrorData(section_id, <<out.msg>>),
         display |-> ErrorData(section_id, <<out.msg>>),
         success |-> FALSE, validated |-> FALSE]
    ELSE IF Truthy(out.value) /\ Len(Strip(out.value.text)) > 0 THEN
        [storage |-> FullSectionData(section_id, out.value.text),
         display |-> DisplaySectionData(section_id, out.value.text),
         success |-> TRUE, validated |-> FALSE]
    ELSE
        [storage |-> ErrorData(section_id, <<"No content found">>),
         display |-> ErrorData(section_id, <<"No content found">>),
         success |-> FALSE, validated |-> FALSE]

\* ProcessSection testing the text for emptiness without strip()
ProcessSectionUnstripped(section_id, filing_type, out) ==
    IF out.kind = "raise" THEN
        [storage |-> ErrorData(section_id, <<out.msg>>),
         display |-> ErrorData(section_id, <<out.msg>>),
         success |-> FALSE, validated |-> FALSE]
    ELSE IF Truthy(out.value) THEN
        IF validate_section_content(out.value, section_id, filing_type)
        THEN [storage |-> FullSectionData(section_id, out.value.text),
              display |-> DisplaySectionData(section_id, out.value.text),
              success |-> TRUE, validated |-> TRUE]
        ELSE [storage |-> ErrorData(section_id, MismatchError(section_id)),
              display |-> ErrorData(section_id, MismatchError(section_id)),
              success |-> FALSE, validated |-> TRUE]
    ELSE
        [storage |-> ErrorData(section_id, <<"No content found">>),
         display |-> ErrorData(section_id, <<"No content found">>),
         success |-> FALSE, validated |-> FALSE]

\* what one iteration appends for section_id, given what the extractor did:
\* the entry for storage, the entry for display, whether it succeeded and
\* whether the validator was called
ProcessSection(section_id, filing_type, out) ==
    IF out.kind = "raise" THEN
        [storage |-> ErrorData(section_id, <<out.msg>>),
         display |-> ErrorData(section_id, <<out.msg>>),
         success |-> FALSE, validated |-> FALSE]
    ELSE LET section_content == out.value IN
        IF Truthy(section_content) /\ Len(Strip(section_content.text)) > 0 THEN
            IF validate_section_content(section_content, section_id, filing_type)
            THEN [storage |-> FullSectionData(section_id, section_content.text),
                  display |-> DisplaySectionData(section_id, section_content.text),
                  success |-> TRUE, validated |-> TRUE]
            ELSE [storage |-> ErrorData(section_id, MismatchError(section_id)),
                  display |-> ErrorData(section_id, MismatchError(section_id)),
                  success |-> FALSE, validated |-> TRUE]
        ELSE
            [storage |-> ErrorData(section_id, <<"No content found">>),
             display |-> ErrorData(section_id, <<"No content found">>),
             success |-> FALSE, validated |-> FALSE]

\* AfterSection leaving the loop one section early
AfterSectionEarly(idx, n) == IF idx + 1 < n THEN "extract" ELSE "save"

\* where the handler goes after iteration idx of a list of n sections
AfterSection(idx, n) == IF idx < n THEN "extract" ELSE "save"

\* ExtractSection calling the extractor a second time when the first call
\* for a section did not give a success
ExtractSectionRetrying(r, out) ==
    /\ run[r].pc = "extract"
    /\ LET section_id == run[r].sections[run[r].idx]
           res == ProcessSection(section_id, run[r].filing_type, out)
       IN  /\ extractor_calls' = [extractor_calls EXCEPT ![r] = @ + 1]
           /\ last_outcome' = [last_outcome EXCEPT ![r] = out]
           /\ IF ~res.success /\ extractor_calls[r] < run[r].idx
              THEN UNCHANGED <<run, validator_calls>>
              ELSE /\ validator_calls' = [validator_calls EXCEPT ![r] =
                          IF res.validated THEN @ + 1 ELSE @]
                   /\ run' = [run EXCEPT
                          ![r].results_for_storage = Append(@, res.storage),
                          ![r].results_for_display = Append(@, res.display),
                          ![r].successful = IF res.success THEN @ + 1 ELSE @,
                          ![r].failed = IF res.success THEN @ ELSE @ + 1,
                          ![r].idx = @ + 1,
                          ![r].pc = AfterSection(run[r].idx,
                                                 Len(run[r].sections))]
    /\ UNCHANGED <<call, FIRESTORE_AVAILABLE, now, filings, scrape_sessions,
                   section_docs, response, request, written>>

ExtractSection(r, out) ==
    /\ run[r].pc = "extract"
    /\ LET section_id == run[r].sections[run[r].idx]
           res == ProcessSection(section_id, run[r].filing_type, out)
       IN  /\ extractor_calls' = [extractor_calls EXCEPT ![r] = @ + 1]
           /\ last_outcome' = [last_outcome EXCEPT ![r] = out]
           /\ validator_calls' = [validator_calls EXCEPT ![r] =
                  IF res.validated THEN @ + 1 ELSE @]
           /\ run' = [run EXCEPT
                  ![r].results_for_storage = Append(@, res.storage),
                  ![r].results_for_display = Append(@, res.display),
                  ![r].successful = IF res.success THEN @ + 1 ELSE @,
                  ![r].failed = IF res.success THEN @ ELSE @ + 1,
                  ![r].idx = @ + 1,
                  ![r].pc = AfterSection(run[r].idx, Len(run[r].sections))]
    /\ UNCHANGED <<call, FIRESTORE_AVAILABLE, now, filings, scrape_sessions,
                   section_docs, response, request, written>>

(***************************************************************************)
(* scrape(): the response, lines 538-550.  The handler's locals die with   *)
(* the return.                                                             *)
(***************************************************************************)
\* ScrapeResponse with the results in reverse order
ScrapeResponseReversed(l, saved) ==
    [status |-> 200,
     filing_type |-> l.filing_type,
     filing_id |-> saved[2],
     session_id |-> saved[3],
     firestore_saved |-> saved[1],
     summary |-> [successful_sections |-> l.successful,
                  failed_sections |-> l.failed,
                  total_sections |-> Len(l.sections)],
     results |-> [i \in 1..Len(l.results_for_display) |->
                     l.results_for_display[Len(l.results_for_display) + 1 - i]]]

\* ScrapeResponse returning no results when the save failed
ScrapeResponseDropping(l, saved) ==
    [status |-> 200,
     filing_type |-> l.filing_type,
     filing_id |-> saved[2],
     session_id |-> saved[3],
     firestore_saved |-> saved[1],
     summary |-> [successful_sections |-> IF saved[1] THEN l.successful ELSE 0,
                  failed_sections |-> l.failed,
                  total_sections |-> Len(l.sections)],
     results |-> IF saved[1] THEN l.results_for_display ELSE <<>>]

ScrapeResponse(l, saved) ==
    [status |-> 200,
     filing_type |-> l.filing_type,
     filing_id |-> saved[2],
     session_id |-> saved[3],
     firestore_saved |-> saved[1],
     summary |-> [successful_sections |-> l.successful,
                  failed_sections |-> l.failed,
                  total_sections |-> Len(l.sections)],
     results |-> l.results_for_display]

\* save_to_firestore returned `saved`; scrape returns its response
Finish(r, saved) ==
    /\ response' = [response EXCEPT ![r] = ScrapeResponse(run[r], saved)]
    /\ run' = [run EXCEPT ![r] = [NoLocals EXCEPT !.pc = "done"]]

(***************************************************************************)
(* save_to_firestore(), lines 98-237, one action per store operation.      *)
(***************************************************************************)
\* SaveBegin with a filing identifier that depends on the time of the call
SaveBeginTimedId(r, t) ==
    /\ run[r].pc = "save"
    /\ IF ~FIRESTORE_AVAILABLE
       THEN /\ Finish(r, <<FALSE, None, None>>)
            /\ UNCHANGED now
       ELSE /\ t >= now
            /\ now' = t
            /\ run' = [run EXCEPT
                   ![r].filing_id = IF t % 2 = 1
                                    THEN generate_filing_id(U_OTHER)
                                    ELSE generate_filing_id(run[r].url),
                   ![r].session_id = generate_session_id(t),
                   ![r].timestamp = t,
                   ![r].pc = "get_filing"]
            /\ UNCHANGED response
    /\ last_outcome' = [last_outcome EXCEPT ![r] = NoOutcome]
    /\ UNCHANGED <<call, validator_calls, FIRESTORE_AVAILABLE, filings,
                   scrape_sessions, section_docs, request, extractor_calls,
                   written>>

\* lines 120-129: the availability check, the identifiers, the timestamp.
\* The clock has moved on by any amount since it was last read; t is what
\* utcnow() returns.
SaveBegin(r, t) ==
    /\ run[r].pc = "save"
    /\ IF ~FIRESTORE_AVAILABLE
       THEN /\ Finish(r, <<FALSE, None, None>>)
            /\ UNCHANGED now
       ELSE /\ t >= now
            /\ now' = t
            /\ run' = [run EXCEPT
                   ![r].filing_id = generate_filing_id(run[r].url),
                   ![r].session_id = generate_session_id(t),
                   ![r].timestamp = t,
                   ![r].pc = "get_filing"]
            /\ UNCHANGED response
    /\ last_outcome' = [last_outcome EXCEPT ![r] = NoOutcome]
    /\ UNCHANGED <<call, validator_calls, FIRESTORE_AVAILABLE, filings, scrape_sessions,
                   section_docs, request, extractor_calls, written>>

\* line 158: the identifiers of the current run's successes
SuccessfulCurrentSections(sections_data) ==
    {sections_data[i].section :
        i \in {j \in 1..Len(sections_data) : sections_data[j].success}}

\* line 137: existing_filing = filing_ref.get(), a snapshot of the Filing
\* record: whether it exists and the total_unique_sections it holds
GetFiling(r) ==
    /\ run[r].pc = "get_filing"
    /\ LET exists == run[r].filing_id \in DOMAIN filings
       IN  run' = [run EXCEPT
               ![r].exists = exists,
               ![r].existing_unique =
                   IF exists
                   THEN filings[run[r].filing_id].total_unique_sections
                   ELSE 0,
               ![r].all_unique_sections =
                   IF exists THEN {}
                   ELSE SuccessfulCurrentSections(run[r].results_for_storage),
               ![r].pc = IF exists THEN "stream_sessions" ELSE "set_filing"]
    /\ UNCHANGED <<call, validator_calls, FIRESTORE_AVAILABLE, now, filings, scrape_sessions,
                   section_docs, response, request, extractor_calls, last_outcome, written>>

\* the session documents stored under a filing
SessionsOf(filing_id) ==
    {k[2] : k \in {p \in DOMAIN scrape_sessions : p[1] = filing_id}}

\* the section documents stored under a session
SectionsOf(filing_id, session_id) ==
    {k[3] : k \in {p \in DOMAIN section_docs :
                      p[1] = filing_id /\ p[2] = session_id}}

\* lines 143-155: the identifiers that succeeded in a stored session
StoredSuccesses(filing_id, sessions) ==
    UNION {{sec \in SectionsOf(filing_id, sid) :
               Get(section_docs[<<filing_id, sid, sec>>], "success", FALSE)} :
           sid \in sessions}

\* lines 141-159: the sessions of the filing and their sections are streamed
\* (read here in one snapshot), then the current successes are added
StreamSessions(r) ==
    /\ run[r].pc = "stream_sessions"
    /\ LET existing_sessions == SessionsOf(run[r].filing_id)
       IN  run' = [run EXCEPT
               ![r].existing_sessions = existing_sessions,
               ![r].all_unique_sections =
                   StoredSuccesses(run[r].filing_id, existing_sessions) \cup
                   SuccessfulCurrentSections(run[r].results_for_storage),
               ![r].pc = "set_filing"]
    /\ UNCHANGED <<call, validator_calls, FIRESTORE_AVAILABLE, now, filings, scrape_sessions,
                   section_docs, response, request, extractor_calls, last_outcome, written>>

\* lines 162-173: filing_data
FilingData(l) ==
    LET base == [url |-> l.url,
                 filing_type |-> l.filing_type,
                 latest_session_id |-> l.session_id,
                 latest_scrape_at |-> l.timestamp,
                 total_unique_sections |-> Cardinality(l.all_unique_sections),
                 total_sessions |-> Cardinality(l.existing_sessions) + 1]
    IN  IF ~l.exists
        THEN [f \in DOMAIN base \cup {"first_scraped_at"} |->
                 IF f = "first_scraped_at" THEN l.timestamp ELSE base[f]]
        ELSE base

\* line 175: filing_ref.set(filing_data, merge=True)
SetFiling(r) ==
    /\ run[r].pc = "set_filing"
    /\ filings' = MergeDoc(filings, run[r].filing_id, FilingData(run[r]))
    /\ written' = [written EXCEPT ![r] = @ \cup {<<run[r].filing_id>>}]
    /\ run' = [run EXCEPT ![r].pc = "set_session"]
    /\ UNCHANGED <<call, validator_calls, FIRESTORE_AVAILABLE, now, scrape_sessions, section_docs,
                   response, request, extractor_calls, last_outcome>>

\* lines 180-188: session_data
SessionData(l) ==
    [scraped_at |-> l.timestamp,
     sections_count |-> Len(l.results_for_storage),
     successful_sections |->
        Cardinality({i \in 1..Len(l.results_for_storage) :
                        l.results_for_storage[i].success}),
     failed_sections |->
        Cardinality({i \in 1..Len(l.results_for_storage) :
                        ~l.results_for_storage[i].success}),
     requested_sections |-> l.sections,
     filing_type |-> l.filing_type,
     filing_url |-> l.url]

\* line 189: session_ref.set(session_data)
SetSession(r) ==
    /\ run[r].pc = "set_session"
    /\ scrape_sessions' = SetDoc(scrape_sessions,
                                 <<run[r].filing_id, run[r].session_id>>,
                                 SessionData(run[r]))
    /\ written' = [written EXCEPT ![r] =
                      @ \cup {<<run[r].filing_id, run[r].session_id>>}]
    /\ run' = [run EXCEPT ![r].pc = "commit"]
    /\ UNCHANGED <<call, validator_calls, FIRESTORE_AVAILABLE, now, filings, section_docs,
                   response, request, extractor_calls, last_outcome>>

\* lines 206-214: section_data
SectionData(section, l) ==
    [section_id |-> section.section,
     content |-> Get(section, "content", <<>>),
     content_length |-> Get(section, "content_length", 0),
     success |-> section.success,
     error |-> Get(section, "error", <<>>),
     scraped_at |-> l.timestamp,
     session_id |-> l.session_id]

\* lines 199-224: batch.set in list order, so that the last entry of an
\* identifier is the one the batch leaves at its document
RECURSIVE BatchSet(_, _, _, _)
BatchSet(coll, sections_data, i, l) ==
    IF i > Len(sections_data) THEN coll
    ELSE BatchSet(SetDoc(coll,
                         <<l.filing_id, l.session_id, sections_data[i].section>>,
                         SectionData(sections_data[i], l)),
                  sections_data, i + 1, l)

\* CommitBatch with the batch keeping the first entry of an identifier
CommitBatchKeepingFirst(r) ==
    /\ run[r].pc = "commit"
    /\ LET n == Len(run[r].results_for_storage)
           backwards == [i \in 1..n |-> run[r].results_for_storage[n + 1 - i]]
       IN  section_docs' = BatchSet(section_docs, backwards, 1, run[r])
    /\ written' = [written EXCEPT ![r] =
           @ \cup {<<run[r].filing_id, run[r].session_id,
                     run[r].results_for_storage[i].section>> :
                   i \in 1..Len(run[r].results_for_storage)}]
    /\ Finish(r, <<TRUE, Str(run[r].filing_id), Str(run[r].session_id)>>)
    /\ UNCHANGED <<call, validator_calls, FIRESTORE_AVAILABLE, now, filings,
                   scrape_sessions, request, extractor_calls, last_outcome>>

\* line 228: batch.commit(), and the return of line 231
CommitBatch(r) ==
    /\ run[r].pc = "commit"
    /\ section_docs' = BatchSet(section_docs, run[r].results_for_storage, 1, run[r])
    /\ written' = [written EXCEPT ![r] =
           @ \cup {<<run[r].filing_id, run[r].session_id,
                     run[r].results_for_storage[i].section>> :
                   i \in 1..Len(run[r].results_for_storage)}]
    /\ Finish(r, <<TRUE, Str(run[r].filing_id), Str(run[r].session_id)>>)
    /\ UNCHANGED <<call, validator_calls, FIRESTORE_AVAILABLE, now, filings, scrape_sessions,
                   request, extractor_calls, last_outcome>>

\* the positions at which the next statement is a store operation
StoreOps == {"get_filing", "stream_sessions", "set_filing", "set_session",
             "commit"}

\* StoreError with scrape calling save_to_firestore again after a failure
StoreErrorRetrying(r) ==
    /\ run[r].pc \in StoreOps
    /\ run' = [run EXCEPT ![r].pc = "save"]
    /\ UNCHANGED <<call, validator_calls, FIRESTORE_AVAILABLE, now, filings,
                   scrape_sessions, section_docs, response, request,
                   extractor_calls, last_outcome, written>>

\* StoreError with the exception escaping save_to_firestore and scrape: the
\* request ends in the server's error page
StoreErrorEscaping(r) ==
    /\ run[r].pc \in StoreOps
    /\ response' = [response EXCEPT ![r] = [status |-> 500]]
    /\ run' = [run EXCEPT ![r] = [NoLocals EXCEPT !.pc = "done"]]
    /\ UNCHANGED <<call, validator_calls, FIRESTORE_AVAILABLE, now, filings,
                   scrape_sessions, section_docs, request, extractor_calls,
                   last_outcome, written>>

\* lines 233-237: the store operation raises instead of completing
StoreError(r) ==
    /\ run[r].pc \in StoreOps
    /\ Finish(r, <<FALSE, None, None>>)
    /\ UNCHANGED <<call, validator_calls, FIRESTORE_AVAILABLE, now, filings, scrape_sessions,
                   section_docs, request, extractor_calls, last_outcome, written>>

\* no other handler is running: the server takes one request at a time
Sequential(r) == \A q \in Runs \ {r} : run[q].pc \in {"idle", "done"}

Next ==
    \/ \E r \in Runs, filing_url \in RequestUrls, sections \in RequestSections :
           Sequential(r) /\ Request(r, filing_url, sections)
    \/ \E r \in Runs :
           /\ run[r].pc = "extract"
           /\ \E out \in ExtractorOutcomes(run[r].url,
                                           run[r].sections[run[r].idx]) :
                  ExtractSection(r, out)
    \/ \E r \in Runs, t \in 0..MaxTime : SaveBegin(r, t)
    \/ \E r \in Runs : GetFiling(r)
    \/ \E r \in Runs : StreamSessions(r)
    \/ \E r \in Runs : SetFiling(r)
    \/ \E r \in Runs : SetSession(r)
    \/ \E r \in Runs : CommitBatch(r)
    \/ \E r \in Runs : StoreError(r)

Spec == Init /\ [][Next]_vars

(***************************************************************************)
(* The same server with the handler running to its end: the thread of a    *)
(* request keeps executing, every call of the extractor returns or raises, *)
(* and every store operation completes or raises.                          *)
(***************************************************************************)
\* the next statement of the handler of run r
HandlerStep(r) ==
    \/ /\ run[r].pc = "extract"
       /\ \E out \in ExtractorOutcomes(run[r].url,
                                       run[r].sections[run[r].idx]) :
              ExtractSection(r, out)
    \/ \E t \in 0..MaxTime : SaveBegin(r, t)
    \/ GetFiling(r)
    \/ StreamSessions(r)
    \/ SetFiling(r)
    \/ SetSession(r)
    \/ CommitBatch(r)
    \/ StoreError(r)

SpecLive == Init /\ [][Next]_vars /\ \A r \in Runs : WF_vars(HandlerStep(r))

(***************************************************************************)
(* The server handling requests in parallel threads: the same handler      *)
(* steps, any interleaving, over requests for item 1A (and item 7) of the  *)
(* document behind U_10K, each extraction succeeding or finding nothing.   *)
(***************************************************************************)
ConcurrentSections == {<<S_1A>>, <<S_7, S_1A>>}
ConcurrentOutcomes == {Return(None), Return(Str(T_1A)), Return(Str(T_7))}

NextConcurrent ==
    \/ \E r \in Runs, sections \in ConcurrentSections :
           Request(r, Str(U_10K), sections)
    \/ \E r \in Runs :
           /\ run[r].pc = "extract"
           /\ \E out \in ExtractorOutcomes(run[r].url,
                                           run[r].sections[run[r].idx])
                            \cap ConcurrentOutcomes :
                  ExtractSection(r, out)
    \/ \E r \in Runs, t \in 0..MaxTime : SaveBegin(r, t)
    \/ \E r \in Runs : GetFiling(r)
    \/ \E r \in Runs : StreamSessions(r)
    \/ \E r \in Runs : SetFiling(r)
    \/ \E r \in Runs : SetSession(r)
    \/ \E r \in Runs : CommitBatch(r)
    \/ \E r \in Runs : StoreError(r)

SpecConcurrent == Init /\ [][NextConcurrent]_vars

(***************************************************************************)
(* The server, one request at a time, scraping a document whose item 7 is  *)
(* long: the provider returns a text of DisplayLimit characters, one of    *)
(* DisplayLimit + 1 characters, or a short one.                            *)
(***************************************************************************)
LongTextSections == {<<S_7>>, <<S_7, S_1A>>}
LongTextOutcomes(section_id) ==
    IF section_id = S_7
    THEN {Return(Str(T_LIMIT)), Return(Str(T_LONG)), Return(Str(T_7))}
    ELSE {Return(Str(T_7))}

NextLongText ==
    \/ \E r \in Runs, sections \in LongTextSections :
           Sequential(r) /\ Request(r, Str(U_8K), sections)
    \/ \E r \in Runs :
           /\ run[r].pc = "extract"
           /\ \E out \in LongTextOutcomes(run[r].sections[run[r].idx]) :
                  ExtractSection(r, out)
    \/ \E r \in Runs, t \in 0..MaxTime : SaveBegin(r, t)
    \/ \E r \in Runs : GetFiling(r)
    \/ \E r \in Runs : StreamSessions(r)
    \/ \E r \in Runs : SetFiling(r)
    \/ \E r \in Runs : SetSession(r)
    \/ \E r \in Runs : CommitBatch(r)
    \/ \E r \in Runs : StoreError(r)

SpecLongText == Init /\ [][NextLongText]_vars

(***************************************************************************)
(* The server, one request at a time, receiving requests of every shape    *)
(* the validation of scrape() tells apart: no reference, an empty one, a   *)
(* reference to sec.gov, a reference to another host, a reference to       *)
(* another host that spells sec.gov in its path; no sections or item 7.    *)
(***************************************************************************)
HostUrls == {None, Str(<<>>), Str(U_8K), Str(U_OTHER), Str(U_FAKE)}
HostSections == {<<>>, <<S_7>>}

NextHosts ==
    \/ \E r \in Runs, filing_url \in HostUrls, sections \in HostSections :
           Sequential(r) /\ Request(r, filing_url, sections)
    \/ \E r \in Runs :
           /\ run[r].pc = "extract"
           /\ \E out \in ExtractorOutcomes(run[r].url,
                                           run[r].sections[run[r].idx]) :
                  ExtractSection(r, out)
    \/ \E r \in Runs, t \in 0..MaxTime : SaveBegin(r, t)
    \/ \E r \in Runs : GetFiling(r)
    \/ \E r \in Runs : StreamSessions(r)
    \/ \E r \in Runs : SetFiling(r)
    \/ \E r \in Runs : SetSession(r)
    \/ \E r \in Runs : CommitBatch(r)
    \/ \E r \in Runs : StoreError(r)

SpecHosts == Init /\ [][NextHosts]_vars

(***************************************************************************)
(* The pure functions called directly: detect_filing_type on a reference   *)
(* (as the /detect-filing-type handler calls it) and                       *)
(* validate_section_content on a text, a section identifier and a filing   *)
(* kind.  The arguments are drawn at the start; the call computes the      *)
(* result.                                                                 *)
(***************************************************************************)
\* references are strings of at most MaxUrlLen characters over UrlChars
UrlChars == {"1", "0", "8", "-", "k", "Q"}
Urls == UNION {[1..n -> UrlChars] : n \in 0..MaxUrlLen}

\* texts handed to the validator
ValidateTexts ==
    {<<>>, T_BLANK, <<"\t">>, T_1A, T_7,
     <<"x","x">>,
     <<"i","t","e","m"," ","1",".">>,
     <<"I","t","e","m"," ","1"," ">>,
     <<"o","u","r"," ","b","u","s","i","n","e","s","s">>,
     <<"i","t","e","m"," ","1","a",".">>,
     <<"I","t","e","m"," ","1","A"," ">>,
     <<"r","i","s","k"," ","f","a","c","t","o","r","s">>,
     <<"i","t","e","m"," ","1","b",".">>,
     <<"u","n","r","e","s","o","l","v","e","d"," ","s","t","a","f","f"," ","c","o","m","m","e","n","t","s">>,
     <<"i","t","e","m"," ","2",".">>,
     <<"I","t","e","m"," ","2"," ">>,
     <<"p","r","o","p","e","r","t","i","e","s">>,
     <<"i","t","e","m"," ","3",".">>,
     <<"l","e","g","a","l"," ","p","r","o","c","e","e","d","i","n","g","s">>,
     <<"i","t","e","m"," ","7"," ">>,
     <<"m","a","n","a","g","e","m","e","n","t","'","s"," ","d","i","s","c","u","s","s","i","o","n">>,
     <<"i","t","e","m"," ","7","a",".">>,
     <<"q","u","a","n","t","i","t","a","t","i","v","e"," ","a","n","d"," ","q","u","a","l","i","t","a","t","i","v","e">>,
     <<"I","T","E","M"," ","9","Z",".">>,
     <<"i","t","e","m"," ","9","z",".">>,
     <<"I","t","e","m"," ","9","z"," ">>,
     <<"p","a","r","t"," ","i">>,
     <<"f","i","n","a","n","c","i","a","l"," ","s","t","a","t","e","m","e","n","t","s">>,
     <<"p","a","r","t">>,
     <<"I","t","e","m">>,
     <<"i","t","e","m"," ","1","-","1">>,
     <<"I","T","E","M"," ","2","-","1">>,
     <<" ","i","t","e","m"," ","1","a","."," ">>}
ValidateContents == {None} \cup {Str(text) : text \in ValidateTexts}

\* section identifiers handed to the validator
ValidateSections ==
    {<<"1">>,
     <<"1","A">>,
     <<"1","B">>,
     <<"2">>,
     <<"3">>,
     <<"7">>,
     <<"7","A">>,
     <<"9","Z">>,
     <<"9","z">>,
     <<"p","a","r","t","1","i","t","e","m","1">>,
     <<"P","a","r","t","1","I","t","e","m","2">>,
     <<"p","a","r","t","2","i","t","e","m","1","a">>,
     <<"1","-","1">>,
     <<"2","-","1">>}

\* filing kinds handed to the validator: those detect_filing_type returns
\* and one it never returns
FilingTypes == {"10-K", "10-Q", "8-K", "20-F"}

DetectCalls ==
    {[fn |-> "detect_filing_type", url |-> u, done |-> FALSE, result |-> ""] :
        u \in Urls}

ValidateCalls ==
    {[fn |-> "validate_section_content", content |-> c,
      requested_section |-> s, filing_type |-> k,
      done |-> FALSE, result |-> FALSE] :
        c \in ValidateContents, s \in ValidateSections, k \in FilingTypes}

\* request.get_json() of POST /detect-filing-type: no JSON body, or an
\* object holding a reference under "url", under "filing_url", under both
\* or under neither
DetectReferences == {U_10K, U_10Q, U_8K, U_OTHER}
DetectBodies ==
    {None} \cup
    UNION {[keys -> DetectReferences] :
              keys \in SUBSET {"url", "filing_url"}}

DetectFilingCalls ==
    {[fn |-> "detect_filing", data |-> d, done |-> FALSE,
      result |-> [status |-> 0]] : d \in DetectBodies}

\* lines 391-394: the handler of POST /detect-filing-type; data.get on a
\* missing body raises, which the server answers with status 500
detect_filing(data) ==
    IF data = None THEN [status |-> 500]
    ELSE LET url == Get(data, "url", <<>>)
             filing_type == detect_filing_type(url)
         IN  [status |-> 200, filing_type |-> filing_type]

InitPure ==
    /\ FIRESTORE_AVAILABLE \in BOOLEAN
    /\ now = 0
    /\ filings = <<>>
    /\ scrape_sessions = <<>>
    /\ section_docs = <<>>
    /\ run = [r \in Runs |-> NoLocals]
    /\ response = [r \in Runs |-> NoResponse]
    /\ request = [r \in Runs |-> NoRequest]
    /\ extractor_calls = [r \in Runs |-> 0]
    /\ last_outcome = [r \in Runs |-> NoOutcome]
    /\ validator_calls = [r \in Runs |-> 0]
    /\ written = [r \in Runs |-> {}]
    /\ call \in DetectCalls \cup ValidateCalls \cup DetectFilingCalls

CallDetect ==
    /\ call.fn = "detect_filing_type"
    /\ ~call.done
    /\ call' = [call EXCEPT !.done = TRUE,
                            !.result = detect_filing_type(call.url)]
    /\ UNCHANGED <<FIRESTORE_AVAILABLE, now, filings, scrape_sessions,
                   section_docs, run, response, request, extractor_calls,
                   last_outcome, validator_calls, written>>

CallValidate ==
    /\ call.fn = "validate_section_content"
    /\ ~call.done
    /\ call' = [call EXCEPT
                   !.done = TRUE,
                   !.result = validate_section_content(call.content,
                                  call.requested_section, call.filing_type)]
    /\ UNCHANGED <<FIRESTORE_AVAILABLE, now, filings, scrape_sessions,
                   section_docs, run, response, request, extractor_calls,
                   last_outcome, validator_calls, written>>

CallDetectFiling ==
    /\ call.fn = "detect_filing"
    /\ ~call.done
    /\ call' = [call EXCEPT !.done = TRUE,
                            !.result = detect_filing(call.data)]
    /\ UNCHANGED <<FIRESTORE_AVAILABLE, now, filings, scrape_sessions,
                   section_docs, run, response, request, extractor_calls,
                   last_outcome, validator_calls, written>>

NextPure == CallDetect \/ CallValidate \/ CallDetectFiling

SpecPure == InitPure /\ [][NextPure]_vars

(***************************************************************************)
(* The read endpoints, lines 669-748: what a GET returns on the store as   *)
(* it is, when the store operations of the handler complete.               *)
(***************************************************************************)
\* a document that does not exist: to_dict() is replaced by {}
NoDoc == [f \in {} |-> 0]

\* GET /filings/<filing_id>/sessions/<session_id>/sections/<section_id>
get_session_section(filing_id, session_id, section_id) ==
    IF ~FIRESTORE_AVAILABLE
    THEN [status |-> 503, error |-> "Firestore not available"]
    ELSE IF <<filing_id, session_id, section_id>> \notin DOMAIN section_docs
    THEN [status |-> 404, error |-> "Section not found"]
    ELSE LET section_data ==
                 section_docs[<<filing_id, session_id, section_id>>]
             session_data ==
                 IF <<filing_id, session_id>> \in DOMAIN scrape_sessions
                 THEN scrape_sessions[<<filing_id, session_id>>]
                 ELSE NoDoc
         IN  [status |-> 200,
              filing_id |-> filing_id,
              session_id |-> session_id,
              section_id |-> Get(section_data, "section_id", None),
              filing_type |-> Get(session_data, "filing_type", None),
              filing_url |-> Get(session_data, "filing_url", None),
              content |-> Get(section_data, "content", <<>>),
              content_length |-> Get(section_data, "content_length", 0),
              success |-> Get(section_data, "success", FALSE),
              error |-> Get(section_data, "error", <<>>),
              scraped_at |-> Get(section_data, "scraped_at", None),
              session_scraped_at |-> Get(session_data, "scraped_at", None)]

\* GET /filings/<filing_id>/sections/<section_id>
get_section_legacy(filing_id, section_id) ==
    IF ~FIRESTORE_AVAILABLE
    THEN [status |-> 503, error |-> "Firestore not available"]
    ELSE IF filing_id \notin DOMAIN filings
    THEN [status |-> 404, error |-> "Filing not found"]
    ELSE LET latest_session_id ==
                 Get(filings[filing_id], "latest_session_id", None)
         IN  IF latest_session_id = None
             THEN [status |-> 404,
                   error |-> "No sessions found for this filing"]
             ELSE get_session_section(filing_id, latest_session_id,
                                      section_id)

(***************************************************************************)
(* Vocabulary of the claims.                                               *)
(***************************************************************************)
\* the handler of run r has returned a scrape response
Responded(r) == run[r].pc = "done" /\ response[r].status = 200

\* run r's save_to_firestore returned (True, filing_id, session_id)
Saved(r) == Responded(r) /\ response[r].firestore_saved

\* run r's save_to_firestore returned (False, None, None)
NotSaved(r) == Responded(r) /\ ~response[r].firestore_saved

\* no handler is running
Quiescent == \A r \in Runs : run[r].pc \in {"idle", "done"}

\* every commit attempted so far has succeeded
AllSaved == \A r \in Runs : run[r].pc = "idle" \/ Saved(r) \/ response[r].status = 400

\* the runs whose commit to filing f succeeded
SavedRuns(f) == {r \in Runs : Saved(r) /\ response[r].filing_id = Str(f)}

\* the sessions created by a completed commit
CommittedSessions ==
    {<<response[r].filing_id.text, response[r].session_id.text>> :
        r \in {q \in Runs : Saved(q)}}

(***************************************************************************)
(* C1.  After any sequence of successful commits against a filing, the     *)
(* Filing's total_unique_sections is the number of section identifiers     *)
(* that have a Section record with success = true in some session stored   *)
(* under the Filing.                                                       *)
(***************************************************************************)
C1_UniqueCountIsStoredUnion ==
    (Quiescent /\ AllSaved) =>
        \A f \in DOMAIN filings :
            filings[f].total_unique_sections =
                Cardinality(StoredSuccesses(f, SessionsOf(f)))

(***************************************************************************)
(* C2.  When two commits against the same Filing overlap, no update is     *)
(* lost: once both have completed (in different sessions), total_sessions  *)
(* counts both and total_unique_sections covers the successful Section     *)
(* records of both sessions.                                               *)
(***************************************************************************)
C2_NoLostUpdate ==
    \A r1, r2 \in Runs :
        (/\ r1 # r2
         /\ Quiescent
         /\ Saved(r1) /\ Saved(r2)
         /\ response[r1].filing_id = response[r2].filing_id
         /\ response[r1].session_id # response[r2].session_id)
        => LET f == response[r1].filing_id.text
           IN  /\ filings[f].total_sessions >= 2
               /\ filings[f].total_unique_sections >=
                     Cardinality(StoredSuccesses(f,
                         {response[r1].session_id.text,
                          response[r2].session_id.text}))

(***************************************************************************)
(* C3.  The commit of a run is all-or-nothing: once no commit is under way *)
(* (also after a store write failed partway), every Session stored under a *)
(* Filing has one Section record for every identifier of its run.          *)
(***************************************************************************)
C3_SessionsAreComplete ==
    Quiescent =>
        \A k \in DOMAIN scrape_sessions :
            SectionsOf(k[1], k[2]) = Range(scrape_sessions[k].requested_sections)

(***************************************************************************)
(* C4.  If the store is unreachable or a store operation fails, the call   *)
(* returns (False, None, None) and has written nothing.                    *)
(***************************************************************************)
C4_FailureWritesNothing ==
    \A r \in Runs :
        NotSaved(r) =>
            /\ response[r].filing_id = None
            /\ response[r].session_id = None
            /\ written[r] = {}

(***************************************************************************)
(* C5.  A Session is immutable once committed: no later step changes the   *)
(* Session record or the Section records of a session that a completed     *)
(* commit created.                                                         *)
(***************************************************************************)
C5_SessionImmutable ==
    [][\A k \in CommittedSessions :
          /\ scrape_sessions'[k] = scrape_sessions[k]
          /\ SectionsOf(k[1], k[2])' = SectionsOf(k[1], k[2])
          /\ \A sec \in SectionsOf(k[1], k[2]) :
                section_docs'[<<k[1], k[2], sec>>] =
                    section_docs[<<k[1], k[2], sec>>]]_vars

(***************************************************************************)
(* C6.  After N successful commits for a reference, the Filing's           *)
(* total_sessions is N and equals the number of Session records stored     *)
(* under the Filing.                                                       *)
(***************************************************************************)
C6_TotalSessionsCountsSessions ==
    (Quiescent /\ AllSaved) =>
        \A f \in DOMAIN filings :
            /\ filings[f].total_sessions = Cardinality(SavedRuns(f))
            /\ filings[f].total_sessions = Cardinality(SessionsOf(f))

(***************************************************************************)
(* C7.  Two distinct runs committed under the same Filing receive          *)
(* different session identifiers.                                          *)
(***************************************************************************)
C7_SessionIdsUnique ==
    \A r1, r2 \in Runs :
        (/\ r1 # r2
         /\ Saved(r1) /\ Saved(r2)
         /\ response[r1].filing_id = response[r2].filing_id)
        => response[r1].session_id # response[r2].session_id

(***************************************************************************)
(* C8.  A Filing's first_scraped_at is written by the first commit only:   *)
(* no later step changes it.                                               *)
(***************************************************************************)
C8_FirstScrapedAtKept ==
    [][\A f \in DOMAIN filings :
          filings'[f].first_scraped_at = filings[f].first_scraped_at]_vars

(***************************************************************************)
(* Vocabulary of claim C9.                                                 *)
(***************************************************************************)
\* text is non-blank and validates for the section and the filing kind
ValidFor(text, section_id, filing_type) ==
    /\ Len(Strip(text)) > 0
    /\ validate_section_content(Str(text), section_id, filing_type)

\* the extractor returned non-blank text that the validator rejects
Mismatched(out, section_id, filing_type) ==
    /\ out.kind = "return"
    /\ Truthy(out.value)
    /\ Len(Strip(out.value.text)) > 0
    /\ ~validate_section_content(out.value, section_id, filing_type)

\* e is a failure entry carrying the mismatched-section error and no content
IsMismatchEntry(e, section_id) ==
    /\ ~e.success
    /\ e.section = section_id
    /\ e.error = MismatchError(section_id)
    /\ "content" \notin DOMAIN e

(***************************************************************************)
(* C9.  Content that fails validation is never persisted as valid: every   *)
(* outcome and every Section record with success = true holds non-blank    *)
(* text that validate_section_content accepts for its identifier and the   *)
(* filing's kind; a validation failure is recorded as a failure with the   *)
(* mismatched-section error and no content.                                *)
(***************************************************************************)
C9_InvalidContentNeverValid ==
    /\ \A k \in DOMAIN section_docs :
          LET d == section_docs[k]
          IN  /\ d.success =>
                    ValidFor(d.content, k[3],
                             scrape_sessions[<<k[1], k[2]>>].filing_type)
              /\ ~d.success => (d.content = <<>> /\ d.content_length = 0)
    /\ \A r \in Runs :
          LET l == run[r]
              n == Len(l.results_for_storage)
          IN  /\ \A i \in 1..n :
                    l.results_for_storage[i].success =>
                        ValidFor(l.results_for_storage[i].content,
                                 l.sections[i], l.filing_type)
              /\ (/\ last_outcome[r] # NoOutcome
                  /\ Mismatched(last_outcome[r], l.sections[n], l.filing_type))
                 => /\ IsMismatchEntry(l.results_for_storage[n], l.sections[n])
                    /\ IsMismatchEntry(l.results_for_display[n], l.sections[n])

\* a validation failure has been committed to the store, as a failure
C9_Witness ==
    \E k \in DOMAIN section_docs :
        /\ Len(section_docs[k].error) = 3
        /\ section_docs[k].error = MismatchError(k[3])
        /\ ~section_docs[k].success

(***************************************************************************)
(* Vocabulary of claim C10.                                                *)
(***************************************************************************)
\* whether a request for section_id succeeds, given what the extractor did
\* for it: nothing else is consulted
SucceedsAlone(section_id, filing_type, out) ==
    /\ out.kind = "return"
    /\ Truthy(out.value)
    /\ Len(Strip(out.value.text)) > 0
    /\ validate_section_content(out.value, section_id, filing_type)

\* results2 is results with one entry appended, for section_id
AppendsOne(results, results2, section_id, success) ==
    /\ Len(results2) = Len(results) + 1
    /\ SubSeq(results2, 1, Len(results)) = results
    /\ results2[Len(results2)].section = section_id
    /\ results2[Len(results2)].success = success

C10_IsolatedStep(r) ==
    LET l  == run[r]
        l2 == run'[r]
    IN  /\ (l.pc = "extract" /\ l2 # l) =>
              /\ extractor_calls'[r] = extractor_calls[r] + 1
              /\ l2.sections = l.sections
              /\ AppendsOne(l.results_for_storage, l2.results_for_storage,
                            l.sections[l.idx],
                            SucceedsAlone(l.sections[l.idx], l.filing_type,
                                          last_outcome'[r]))
              /\ AppendsOne(l.results_for_display, l2.results_for_display,
                            l.sections[l.idx],
                            SucceedsAlone(l.sections[l.idx], l.filing_type,
                                          last_outcome'[r]))
        /\ (l2.pc \in {"save"} \cup StoreOps) =>
              /\ Len(l2.results_for_storage) = Len(l2.sections)
              /\ Len(l2.results_for_display) = Len(l2.sections)
              /\ extractor_calls'[r] = Len(l2.sections)
              /\ \A i \in 1..Len(l2.sections) :
                    /\ l2.results_for_storage[i].section = l2.sections[i]
                    /\ l2.results_for_display[i].section = l2.sections[i]
        /\ (response'[r].status = 200) =>
              LET res == response'[r].results
                  req == request'[r].sections
              IN  /\ Len(res) = Len(req)
                  /\ \A i \in 1..Len(req) : res[i].section = req[i]
                  /\ response'[r].summary.total_sections = Len(req)
                  /\ response'[r].summary.successful_sections =
                        Cardinality({i \in 1..Len(res) : res[i].success})
                  /\ response'[r].summary.failed_sections =
                        Cardinality({i \in 1..Len(res) : ~res[i].success})

(***************************************************************************)
(* C10.  Per-section failures are isolated: every step of the loop appends *)
(* exactly one outcome, which depends on that section's extraction alone   *)
(* and leaves the earlier outcomes as they are; the loop ends only after   *)
(* the last requested occurrence, and the response holds one outcome per   *)
(* occurrence, in the requested positions.                                 *)
(***************************************************************************)
C10_FailuresIsolated == [][\A r \in Runs : C10_IsolatedStep(r)]_vars

\* a run whose first section failed returned a success for its second
C10_Witness ==
    \E r \in Runs :
        /\ Responded(r)
        /\ Len(response[r].results) = 2
        /\ ~response[r].results[1].success
        /\ response[r].results[2].success

(***************************************************************************)
(* Vocabulary of claim C11.                                                *)
(***************************************************************************)
\* entry is what the extractor's outcome out left: the text it returned, or
\* the description of what it raised
RecordsOutcome(entry, out) ==
    /\ entry.success => (out.kind = "return" /\ entry.content = out.value.text)
    /\ out.kind = "raise" => (~entry.success /\ entry.error = <<out.msg>>)

C11_OrderStep(r) ==
    LET l  == run[r]
        l2 == run'[r]
        i  == l.idx
    IN  /\ (l.pc = "extract" /\ l2 # l) =>
              /\ Len(l.results_for_storage) = i - 1
              /\ Len(l.results_for_display) = i - 1
              /\ Len(l2.results_for_storage) = i
              /\ Len(l2.results_for_display) = i
              /\ \A j \in 1..(i - 1) :
                    /\ l2.results_for_storage[j] = l.results_for_storage[j]
                    /\ l2.results_for_display[j] = l.results_for_display[j]
              /\ l2.results_for_storage[i].section = request[r].sections[i]
              /\ l2.results_for_display[i].section = request[r].sections[i]
              /\ RecordsOutcome(l2.results_for_storage[i], last_outcome'[r])
              /\ l2.results_for_display[i].success =
                    l2.results_for_storage[i].success
              /\ l2.idx = i + 1
        /\ (l.pc \in {"save"} \cup StoreOps /\ l2.pc \in StoreOps) =>
              l2.results_for_storage = l.results_for_storage
        /\ (l.pc \in {"save"} \cup StoreOps /\ response'[r].status = 200) =>
              /\ response'[r].results = l.results_for_display
              /\ Len(response'[r].results) = Len(request[r].sections)
              /\ \A j \in 1..Len(request[r].sections) :
                    response'[r].results[j].section = request[r].sections[j]

(***************************************************************************)
(* C11.  Order preservation: the sections are extracted one at a time in   *)
(* the order of the request; every extraction appends its outcome at the   *)
(* position of the section it was for and leaves the earlier entries where *)
(* they are; the list handed to the store and the list returned to the     *)
(* caller hold the i-th requested identifier at position i.                *)
(***************************************************************************)
C11_OrderPreserved == [][\A r \in Runs : C11_OrderStep(r)]_vars

\* a response to a request for item 7 then item 1A, both extracted
C11_Witness ==
    \E r \in Runs :
        /\ Responded(r)
        /\ request[r].sections = <<S_7, S_1A>>
        /\ response[r].results[1].section = S_7
        /\ response[r].results[1].success
        /\ response[r].results[2].section = S_1A
        /\ response[r].results[2].success

(***************************************************************************)
(* Vocabulary of claim C12.                                                *)
(***************************************************************************)
\* the step in which the handler of run r returns its scrape response
Returns(r) == response[r].status = 0 /\ response'[r].status = 200

C12_ReturnStep(r) ==
    Returns(r) =>
        LET res     == response'[r]
            display == run[r].results_for_display
        IN  /\ res.results = display
            /\ res.summary.successful_sections =
                  Cardinality({i \in 1..Len(display) : display[i].success})
            /\ res.summary.failed_sections =
                  Cardinality({i \in 1..Len(display) : ~display[i].success})
            /\ res.summary.total_sections = Len(request[r].sections)
            /\ res.filing_type = run[r].filing_type
            /\ ~res.firestore_saved =>
                  (res.filing_id = None /\ res.session_id = None)
            /\ res.firestore_saved =>
                  (res.filing_id # None /\ res.session_id # None)

(***************************************************************************)
(* C12.  A persistence failure does not alter the computed results:        *)
(* whether or not the save succeeded, scrape returns the display results   *)
(* and the summary counts of the loop; when the save failed or the store   *)
(* is unavailable, firestore_saved is false and filing_id and session_id   *)
(* are null.                                                               *)
(***************************************************************************)
C12_SaveFailureKeepsResults == [][\A r \in Runs : C12_ReturnStep(r)]_vars

\* a store operation failed partway and the response still holds a success
C12_Witness ==
    \E r \in Runs :
        /\ NotSaved(r)
        /\ written[r] # {}
        /\ \E i \in 1..Len(response[r].results) : response[r].results[i].success
        /\ response[r].summary.successful_sections > 0

(***************************************************************************)
(* Vocabulary of claim C13.                                                *)
(***************************************************************************)
\* the extractor returned None, '' or a text of whitespace only
ReturnedNothing(out) ==
    /\ out.kind = "return"
    /\ \/ out.value = None
       \/ \A i \in 1..Len(out.value.text) : out.value.text[i] \in Whitespace

\* e is a failure entry for section_id with this error and no content
IsFailureEntry(e, section_id, error) ==
    /\ e.section = section_id
    /\ ~e.success
    /\ e.error = error
    /\ "content" \notin DOMAIN e
    /\ "content_length" \notin DOMAIN e

C13_ExtractStep(r) ==
    LET l   == run[r]
        l2  == run'[r]
        out == last_outcome'[r]
        sec == l.sections[l.idx]
        n   == Len(l2.results_for_storage)
    IN  (l.pc = "extract" /\ l2 # l) =>
            /\ out.kind = "raise" =>
                  /\ IsFailureEntry(l2.results_for_storage[n], sec, <<out.msg>>)
                  /\ IsFailureEntry(l2.results_for_display[n], sec, <<out.msg>>)
                  /\ validator_calls'[r] = validator_calls[r]
                  /\ l2.failed = l.failed + 1 /\ l2.successful = l.successful
            /\ ReturnedNothing(out) =>
                  /\ IsFailureEntry(l2.results_for_storage[n], sec,
                                    <<"No content found">>)
                  /\ IsFailureEntry(l2.results_for_display[n], sec,
                                    <<"No content found">>)
                  /\ validator_calls'[r] = validator_calls[r]
                  /\ l2.failed = l.failed + 1 /\ l2.successful = l.successful
            /\ (out.kind = "return" /\ ~ReturnedNothing(out)) =>
                  validator_calls'[r] = validator_calls[r] + 1

(***************************************************************************)
(* C13.  If the extractor call raises, the section's outcome is a failure  *)
(* whose error is the exception's description; if it returns None, empty   *)
(* or whitespace-only text, the outcome is a failure with the error "No    *)
(* content found"; in both cases the validator is not called and no        *)
(* content is recorded.                                                    *)
(***************************************************************************)
C13_ExtractionFailures == [][\A r \in Runs : C13_ExtractStep(r)]_vars

\* a response holding a failure for a raised exception and one for a
\* call that returned nothing, neither of which reached the validator
C13_Witness ==
    \E r \in Runs :
        /\ Responded(r)
        /\ Len(response[r].results) = 2
        /\ ~response[r].results[1].success
        /\ ~response[r].results[2].success
        /\ response[r].results[1].error = <<"API error">>
        /\ response[r].results[2].error = <<"No content found">>
        /\ validator_calls[r] = 0
        /\ extractor_calls[r] = 2

(***************************************************************************)
(* Vocabulary of claim C14.                                                *)
(***************************************************************************)
\* shown is text as the caller sees it: the text itself up to 500
\* characters, its first 500 characters and "..." beyond
IsDisplayOf(shown, text) ==
    IF Len(text) <= 500 THEN shown = text
    ELSE /\ Len(shown) = 503
         /\ \A i \in 1..500 : shown[i] = text[i]
         /\ \A i \in 501..503 : shown[i] = "."

\* position i holds the last entry of its section identifier
IsLastOf(results, i) ==
    \A j \in (i + 1)..Len(results) : results[j].section # results[i].section

C14_Step(r) ==
    LET l   == run[r]
        l2  == run'[r]
        out == last_outcome'[r]
        n   == Len(l2.results_for_storage)
    IN  /\ (l.pc = "extract" /\ l2 # l /\ l2.results_for_storage[n].success) =>
              /\ out.kind = "return"
              /\ l2.results_for_storage[n].content = out.value.text
              /\ l2.results_for_storage[n].content_length = Len(out.value.text)
              /\ IsDisplayOf(l2.results_for_display[n].content, out.value.text)
              /\ l2.results_for_display[n].content_length = Len(out.value.text)
              /\ Len(l2.results_for_display[n].content) <= 503
        /\ (l.pc = "commit" /\ response'[r].status = 200
                /\ response'[r].firestore_saved) =>
              \A i \in 1..Len(l.results_for_storage) :
                  (l.results_for_storage[i].success
                      /\ IsLastOf(l.results_for_storage, i)) =>
                  LET d == section_docs'[<<l.filing_id, l.session_id,
                                           l.results_for_storage[i].section>>]
                  IN  /\ d.success
                      /\ d.content = l.results_for_storage[i].content
                      /\ d.content_length = Len(d.content)
                      /\ IsDisplayOf(response'[r].results[i].content, d.content)

(***************************************************************************)
(* C14.  For every successful section the content persisted in its Section *)
(* record is the full text the extractor returned, and the content         *)
(* returned to the caller is that text when it has at most 500 characters  *)
(* and its first 500 characters followed by "..." otherwise (at most 503   *)
(* characters); the stored value is never cut.                             *)
(***************************************************************************)
C14_StoredFullDisplayedCut == [][\A r \in Runs : C14_Step(r)]_vars

\* a text of 501 characters is stored whole and returned as 503 characters,
\* and a text of 500 characters is returned whole
C14_Witness ==
    /\ \E r \in Runs :
          /\ Saved(r)
          /\ Len(response[r].results[1].content) = DisplayLimit + 3
          /\ section_docs[<<response[r].filing_id.text,
                            response[r].session_id.text, S_7>>].content = T_LONG
    /\ \E r \in Runs :
          /\ Responded(r)
          /\ response[r].results[1].success
          /\ response[r].results[1].content = T_LIMIT

(***************************************************************************)
(* Vocabulary of claim C15.                                                *)
(***************************************************************************)
\* the storage entry and the display entry come from one extraction
SameExtraction(stored, shown) ==
    /\ shown.section = stored.section
    /\ shown.success = stored.success
    /\ IF stored.success
       THEN /\ shown.content_length = Len(stored.content)
            /\ stored.content_length = Len(stored.content)
            /\ SubSeq(shown.content, 1, Len(shown.content) - 3)
                  = SubSeq(stored.content, 1, Len(shown.content) - 3)
       ELSE shown = stored

(***************************************************************************)
(* C15.  In one run the extractor is called exactly once per occurrence of *)
(* a requested identifier: the number of calls is the number of outcomes   *)
(* so far, it is the length of the requested list when the loop is over,   *)
(* whatever the outcomes were, and the stored and the displayed variant of *)
(* every outcome come from the same call.                                  *)
(***************************************************************************)
C15_OneCallPerOccurrence ==
    \A r \in Runs :
        /\ run[r].pc = "extract" =>
              /\ extractor_calls[r] = run[r].idx - 1
              /\ extractor_calls[r] = Len(run[r].results_for_storage)
              /\ extractor_calls[r] = Len(run[r].results_for_display)
        /\ run[r].pc \in {"save"} \cup StoreOps =>
              extractor_calls[r] = Len(run[r].sections)
        /\ response[r].status = 200 =>
              extractor_calls[r] = Len(request[r].sections)
        /\ response[r].status = 400 => extractor_calls[r] = 0
        /\ \A i \in 1..Len(run[r].results_for_storage) :
              SameExtraction(run[r].results_for_storage[i],
                             run[r].results_for_display[i])

\* a run of two sections, the first of which raised and the second of which
\* failed validation, made two calls
C15_Witness ==
    \E r \in Runs :
        /\ Responded(r)
        /\ Len(response[r].results) = 2
        /\ ~response[r].results[1].success
        /\ response[r].results[1].error = <<"API error">>
        /\ ~response[r].results[2].success
        /\ response[r].results[2].error = MismatchError(S_1A)
        /\ extractor_calls[r] = 2

(***************************************************************************)
(* C16.  The Filing identifier is a function of the source reference only: *)
(* all commits for one reference return the same filing_id and write under *)
(* that one Filing record, whatever the time, the order of the calls and   *)
(* the contents of the store; the store holds one Filing record per        *)
(* reference.                                                              *)
(***************************************************************************)
C16_FilingIdOfReference ==
    /\ \A r1, r2 \in Runs :
          request[r1].url = request[r2].url =>
              /\ (Saved(r1) /\ Saved(r2)) =>
                    response[r1].filing_id = response[r2].filing_id
              /\ \A p1 \in written[r1], p2 \in written[r2] : p1[1] = p2[1]
    /\ \A r \in Runs :
          Saved(r) =>
              /\ \A p \in written[r] : p[1] = response[r].filing_id.text
              /\ response[r].filing_id.text \in DOMAIN filings
              /\ filings[response[r].filing_id.text].url = request[r].url
    /\ \A f1, f2 \in DOMAIN filings :
          filings[f1].url = filings[f2].url => f1 = f2

\* two commits for one reference, made at different times, the second one
\* on a store that already held the filing
C16_Witness ==
    /\ Saved(1) /\ Saved(2)
    /\ request[1].url = request[2].url
    /\ response[1].session_id # response[2].session_id
    /\ response[1].filing_id = response[2].filing_id
    /\ filings[response[2].filing_id.text].total_sessions = 2

(***************************************************************************)
(* Vocabulary of the claims about validate_section_content.                *)
(***************************************************************************)
\* a direct call of the validator has returned
ValidateDone == call.fn = "validate_section_content" /\ call.done

\* pat occurs in s when letter case is ignored
OccursIgnoringCase(s, pat) ==
    \E i \in 0..(Len(s) - Len(pat)) :
        \A j \in 1..Len(pat) : LowerChar(s[i + j]) = LowerChar(pat[j])

\* the well-known sections: those the validator names with markers of
\* their own
WellKnown10K ==
    {<<"1">>, <<"1","A">>, <<"1","B">>, <<"2">>, <<"3">>, <<"7">>,
     <<"7","A">>}

HasExplicitRule(requested_section, filing_type) ==
    \/ filing_type = "10-K" /\ requested_section \in WellKnown10K
    \/ /\ filing_type = "10-Q"
       /\ \/ OccursIgnoringCase(requested_section, P1I1)
          \/ OccursIgnoringCase(requested_section, P1I2)

\* content is a text of at least one character
NonEmpty(content) == content # None /\ Len(content.text) > 0

\* content is a text with a character that is not whitespace
NonBlank(content) ==
    /\ content # None
    /\ \E i \in 1..Len(content.text) : content.text[i] \notin Whitespace

(***************************************************************************)
(* C17 as stated.  For a (filing kind, section identifier) pair with no    *)
(* explicit rule, i.e. a section identifier outside the well-known         *)
(* sections of its kind (kind 10-K with "9Z"), validate_section_content    *)
(* returns true for every non-empty text (stated here for the texts that   *)
(* are not blank either).                                                  *)
(***************************************************************************)
C17_PermissiveWithoutRule ==
    (/\ ValidateDone
     /\ ~HasExplicitRule(call.requested_section, call.filing_type)
     /\ NonBlank(call.content))
    => call.result

(***************************************************************************)
(* C17 as amended.  validate_section_content accepts every text that is    *)
(* not blank only for a filing kind it has no rules for (a kind other than *)
(* 10-K, 10-Q and 8-K); a section identifier outside the well-known        *)
(* sections of kind 10-K is checked against its item heading, and a text   *)
(* in which "ITEM <identifier>" does not occur is rejected.                *)
(***************************************************************************)
C17_PermissiveWithoutRuleAmended ==
    ValidateDone =>
        /\ (call.filing_type \notin {"10-K", "10-Q", "8-K"}
                /\ NonBlank(call.content))
           => call.result
        /\ (/\ call.filing_type = "10-K"
            /\ call.requested_section \notin WellKnown10K
            /\ NonEmpty(call.content)
            /\ ~OccursIgnoringCase(call.content.text,
                                   ITEM \o call.requested_section))
           => ~call.result

\* the validator was called for a kind without rules and accepted a text
\* of another section
C17_Witness ==
    /\ ValidateDone
    /\ call.filing_type = "20-F"
    /\ call.requested_section = <<"9","Z">>
    /\ call.content = Str(T_7)
    /\ call.result

Keyword10K(requested_section) ==
    CASE requested_section = <<"1">>     -> H_BUSINESS
      [] requested_section = <<"1","A">> -> H_RISK
      [] requested_section = <<"1","B">> -> H_UNRESOLVED
      [] requested_section = <<"2">>     -> H_PROPERTIES
      [] requested_section = <<"3">>     -> H_LEGAL
      [] requested_section = <<"7">>     -> H_MDA
      [] requested_section = <<"7","A">> -> H_QUANT

\* the markers of a pair that has explicit rules
RuleMarkers(requested_section, filing_type) ==
    IF filing_type = "10-K"
    THEN {ITEM \o requested_section \o <<".">>,
          ITEM \o requested_section \o <<" ">>,
          Keyword10K(requested_section)}
    ELSE IF OccursIgnoringCase(requested_section, P1I1)
         THEN {H_PART_I, H_ITEM_1, H_FINSTAT}
         ELSE {H_ITEM_2, H_MDA}

(***************************************************************************)
(* C19.  For a (filing kind, section identifier) pair that has explicit    *)
(* rules, validate_section_content returns true if and only if at least    *)
(* one of the pair's markers occurs in the text, letter case ignored; kind *)
(* 10-K, section 1A validates a text containing "ITEM 1A." and rejects a   *)
(* text that holds "ITEM 7." and no 1A marker.                             *)
(***************************************************************************)
C19_ValidIffMarkerOccurs ==
    (ValidateDone /\ HasExplicitRule(call.requested_section, call.filing_type))
    => /\ call.result =
             (/\ call.content # None
              /\ \E marker \in RuleMarkers(call.requested_section,
                                           call.filing_type) :
                    OccursIgnoringCase(call.content.text, marker))
       /\ (/\ call.filing_type = "10-K"
           /\ call.requested_section = S_1A
           /\ call.content # None
           /\ OccursIgnoringCase(call.content.text, ITEM \o S_1A \o <<".">>))
          => call.result
       /\ (/\ call.filing_type = "10-K"
           /\ call.requested_section = S_1A
           /\ call.content = Str(T_7))
          => ~call.result

\* kind 10-K, section 1A, called on "Item 1a." and found valid
C19_Witness ==
    /\ ValidateDone
    /\ call.filing_type = "10-K"
    /\ call.requested_section = S_1A
    /\ call.content = Str(T_1A)
    /\ call.result

(***************************************************************************)
(* Vocabulary of claim C20.                                                *)
(***************************************************************************)
\* a direct call of the classifier has returned
DetectDone == call.fn = "detect_filing_type" /\ call.done

\* pat (in lower case) is written in url from position i on, in any case
WrittenAt(url, i, pat) ==
    /\ i + Len(pat) - 1 <= Len(url)
    /\ \A j \in 1..Len(pat) : LowerChar(url[i + j - 1]) = pat[j]

\* url spells a kind: its digits, then its letter, a hyphen between them
\* or not
Spells(url, digits, letter) ==
    \E i \in 1..Len(url) :
        /\ WrittenAt(url, i, digits)
        /\ \/ WrittenAt(url, i + Len(digits), <<letter>>)
           \/ WrittenAt(url, i + Len(digits), <<"-", letter>>)

HostOf(url) ==
    LET slashes == {i \in 1..Len(url) : url[i] = "/"}
    IN  IF slashes = {} THEN url
        ELSE SubSeq(url, 1, (CHOOSE i \in slashes : \A j \in slashes : i <= j) - 1)

\* the reference points to sec.gov or to a host under it
IsSecGovUrl(url) ==
    LET host   == HostOf(url)
        domain == <<"s","e","c",".","g","o","v">>
        n      == Len(host) - Len(domain)
    IN  /\ n >= 0
        /\ SubSeq(host, n + 1, Len(host)) = domain
        /\ n > 0 => host[n] = "."

\* the handler of run r rejected its request
Rejected(r) == run[r].pc = "done" /\ response[r].status = 400

\* the handler of run r accepted its request
Accepted(r) == run[r].pc # "idle" /\ response[r].status # 400

(***************************************************************************)
(* C21.  A scrape request without a filing URL, without sections or with a *)
(* URL that is not an SEC.gov URL is rejected with status 400: every       *)
(* request the handler accepts has a URL of sec.gov and at least one       *)
(* section; a rejected request makes no extractor call and no store write. *)
(***************************************************************************)
C21_InvalidRequestsRejected ==
    \A r \in Runs :
        /\ Accepted(r) =>
              /\ Len(request[r].url) > 0
              /\ Len(request[r].sections) > 0
              /\ IsSecGovUrl(request[r].url)
        /\ Rejected(r) =>
              /\ extractor_calls[r] = 0
              /\ validator_calls[r] = 0
              /\ written[r] = {}

(***************************************************************************)
(* C22.  Read-back round trip: for every section that succeeded in a run   *)
(* whose commit succeeded, fetching the Section record by the returned     *)
(* filing id, session id and section id yields success = true and the full *)
(* content extracted for that section in that run (the returned content is *)
(* that text, cut for display), also after later runs.                     *)
(***************************************************************************)
C22_ReadBackRoundTrip ==
    \A r \in Runs :
        Saved(r) =>
            \A i \in 1..Len(response[r].results) :
                response[r].results[i].success =>
                    LET got == get_session_section(
                                   response[r].filing_id.text,
                                   response[r].session_id.text,
                                   response[r].results[i].section)
                    IN  /\ got.status = 200
                        /\ got.success
                        /\ got.content_length =
                              response[r].results[i].content_length
                        /\ IsDisplayOf(response[r].results[i].content,
                                       got.content)

(***************************************************************************)
(* Vocabulary of claim C23.                                                *)
(***************************************************************************)
\* the response of run r holds one outcome for every requested section
AnswersEverySection(r) ==
    /\ Responded(r)
    /\ Len(response[r].results) = Len(request[r].sections)
    /\ \A i \in 1..Len(request[r].sections) :
          /\ response[r].results[i].section = request[r].sections[i]
          /\ response[r].results[i].success \in BOOLEAN
    /\ response[r].summary.total_sections = Len(request[r].sections)

(***************************************************************************)
(* C23.  No error kind is fatal: every accepted scrape request eventually  *)
(* returns a normal response (status 200) holding an outcome for every     *)
(* requested section, whatever the extractor raised or returned, whatever  *)
(* the validator decided and whether or not the store was available or a   *)
(* store operation failed.                                                 *)
(***************************************************************************)
C23_EveryRequestAnswered ==
    \A r \in Runs : Accepted(r) ~> AnswersEverySection(r)

\* a request answered after an extractor exception, a validation failure
\* and a store failure partway through the commit
C23_Witness ==
    \E r \in Runs :
        /\ AnswersEverySection(r)
        /\ NotSaved(r)
        /\ written[r] # {}
        /\ Len(response[r].results) = 2
        /\ ~response[r].results[1].success
        /\ ~response[r].results[2].success
        /\ response[r].results[1].error = <<"API error">>
        /\ response[r].results[2].error = MismatchError(S_1A)

(***************************************************************************)
(* Vocabulary of claim C24.                                                *)
(***************************************************************************)
\* a request to /detect-filing-type has been answered
DetectFilingDone == call.fn = "detect_filing" /\ call.done

(***************************************************************************)
(* C24.  The /detect-filing-type endpoint answers with the filing kind of  *)
(* the reference sent under the key filing_url: 10-K for a 10-K reference, *)
(* 10-Q for a 10-Q reference, 8-K for a reference containing "8-k".        *)
(***************************************************************************)
C24_DetectEndpointReadsFilingUrl ==
    (/\ DetectFilingDone
     /\ call.data # None
     /\ "filing_url" \in DOMAIN call.data)
    => /\ call.result.status = 200
       /\ call.data["filing_url"] = U_10K => call.result.filing_type = "10-K"
       /\ call.data["filing_url"] = U_10Q => call.result.filing_type = "10-Q"
       /\ Contains(Lower(call.data["filing_url"]), <<"8","-","k">>)
             => call.result.filing_type = "8-K"

(***************************************************************************)
(* Vocabulary of claim C25.                                                *)
(***************************************************************************)
\* the Section record d holds the outcome entry
HoldsOutcome(d, entry) ==
    /\ d.section_id = entry.section
    /\ d.success = entry.success
    /\ d.content = Get(entry, "content", <<>>)
    /\ d.content_length = Get(entry, "content_length", 0)
    /\ d.error = Get(entry, "error", <<>>)

\* the step in which the commit of run r completes
Commits(r) ==
    /\ run[r].pc = "commit"
    /\ response'[r].status = 200
    /\ response'[r].firestore_saved

C25_CommitStep(r) ==
    LET l       == run[r]
        n       == Len(l.sections)
        records == {k \in DOMAIN section_docs' :
                       /\ k[1] = l.filing_id
                       /\ k[2] = l.session_id
                       /\ k[3] \in Range(l.sections)}
    IN  Commits(r) =>
            /\ extractor_calls[r] = n
            /\ Len(response'[r].results) = n
            /\ \A i \in 1..n :
                  /\ response'[r].results[i].section = l.sections[i]
                  /\ response'[r].results[i].success =
                        l.results_for_storage[i].success
                  /\ IsLastOf(l.results_for_storage, i) =>
                        HoldsOutcome(section_docs'[<<l.filing_id, l.session_id,
                                                     l.sections[i]>>],
                                     l.results_for_storage[i])
            /\ Cardinality(records) = Cardinality(Range(l.sections))

(***************************************************************************)
(* C25.  When a requested list repeats a section identifier, every         *)
(* occurrence is extracted and has its own entry in the returned results,  *)
(* and the commit leaves exactly one Section record for the identifier in  *)
(* the Session, holding the outcome of the last occurrence.                *)
(***************************************************************************)
C25_LastOccurrenceWins == [][\A r \in Runs : C25_CommitStep(r)]_vars

\* item 1A was requested twice, extracted the first time and not the
\* second: two entries are returned and the stored record is the failure
C25_Witness ==
    \E r \in Runs :
        /\ Saved(r)
        /\ request[r].sections = <<S_1A, S_1A>>
        /\ extractor_calls[r] = 2
        /\ response[r].results[1].success
        /\ ~response[r].results[2].success
        /\ ~section_docs[<<response[r].filing_id.text,
                           response[r].session_id.text, S_1A>>].success

(***************************************************************************)
(* C26.  The Filing's total_unique_sections is monotonic: as long as every *)
(* commit succeeds, the value a Filing holds when a commit to it completes *)
(* is not smaller than the value it held before that commit, also when a   *)
(* requested list repeats an identifier with differing outcomes.           *)
(***************************************************************************)
C26_UniqueCountMonotonic ==
    [][\A r \in Runs :
          (Commits(r) /\ \A q \in Runs : ~NotSaved(q)) =>
              filings'[run[r].filing_id].total_unique_sections >=
                  run[r].existing_unique]_vars

(***************************************************************************)
(* C27.  For every committed Session, once no commit is under way, the     *)
(* recorded counts agree with its Section records: successful_sections is  *)
(* the number of Section records of the Session with success = true,       *)
(* failed_sections the number with success = false, and sections_count the *)
(* number of Section records of the Session.                               *)
(***************************************************************************)
C27_SessionCountsMatchRecords ==
    Quiescent =>
        \A k \in CommittedSessions :
            LET session == scrape_sessions[k]
                records == SectionsOf(k[1], k[2])
                succeeded == {sec \in records :
                                 section_docs[<<k[1], k[2], sec>>].success}
            IN  /\ session.successful_sections = Cardinality(succeeded)
                /\ session.failed_sections = Cardinality(records \ succeeded)
                /\ session.sections_count = Cardinality(records)

(***************************************************************************)
(* C28.  Whenever a Filing record exists and no commit is under way, its   *)
(* latest_session_id names a Session stored under the Filing, no Session   *)
(* of the Filing is more recent, and get_section_legacy answers with the   *)
(* Section records of that Session; also after failed commits.             *)
(***************************************************************************)
C28_LatestSessionExists ==
    Quiescent =>
        \A f \in DOMAIN filings :
            LET latest == filings[f].latest_session_id
            IN  /\ <<f, latest>> \in DOMAIN scrape_sessions
                /\ \A sid \in SessionsOf(f) :
                      scrape_sessions[<<f, sid>>].scraped_at <=
                          scrape_sessions[<<f, latest>>].scraped_at
                /\ \A sec \in SectionsOf(f, latest) :
                      /\ get_section_legacy(f, sec).status = 200
                      /\ get_section_legacy(f, sec) =
                            get_session_section(f, latest, sec)

(***************************************************************************)
(* Vocabulary of claim C29.                                                *)
(***************************************************************************)
\* the handler is inside save_to_firestore, past the availability check
InSave(l) == l.pc \in StoreOps

\* the loop over the requested sections is over: there is one outcome for
\* every requested section, at its position
LoopComplete(r) ==
    /\ extractor_calls[r] = Len(request[r].sections)
    /\ run[r].sections = request[r].sections
    /\ Len(run[r].results_for_storage) = Len(request[r].sections)
    /\ \A i \in 1..Len(request[r].sections) :
          run[r].results_for_storage[i].section = request[r].sections[i]

C29_Step(r) ==
    LET l  == run[r]
        l2 == run'[r]
    IN  \* the call of save_to_firestore comes after the loop ...
        /\ (l.pc = "save" /\ l2 # l) =>
              /\ LoopComplete(r)
              /\ written[r] = {}
              /\ l2.pc \in {"get_filing", "done"}
              /\ l2.pc = "get_filing" =>
                    /\ l2.results_for_storage = l.results_for_storage
                    /\ l2.sections = request[r].sections
        \* ... and is the only one: the handler never comes back to it
        /\ (InSave(l) \/ l.pc = "done") => l2.pc \notin {"extract", "save"}
        /\ Returns(r) => (l.pc = "save" \/ InSave(l))
        \* what save_to_firestore is given is what it writes
        /\ (InSave(l) /\ InSave(l2)) =>
              /\ l2.results_for_storage = l.results_for_storage
              /\ l2.sections = request[r].sections
        /\ (l.pc = "set_session" /\ l2.pc = "commit") =>
              LET session == scrape_sessions'[<<l.filing_id, l.session_id>>]
              IN  /\ session.requested_sections = request[r].sections
                  /\ session.sections_count = Len(request[r].sections)
        \* no store write while sections are being extracted
        /\ l.pc \in {"idle", "extract", "save"} => written[r] = {}
        /\ (l.pc = "extract" /\ l2 # l) =>
              /\ written'[r] = {}
              /\ filings' = filings
              /\ scrape_sessions' = scrape_sessions
              /\ section_docs' = section_docs

(***************************************************************************)
(* C29.  Every accepted scrape request calls save_to_firestore exactly     *)
(* once, after every requested section has been processed, with the        *)
(* complete list of outcomes and the requested list as it was received     *)
(* (also when every section failed); no store write happens while sections *)
(* are still being extracted.                                              *)
(***************************************************************************)
C29_OneCommitAfterLoop == [][\A r \in Runs : C29_Step(r)]_vars

\* a run all of whose sections failed was committed, with its two failures
C29_Witness ==
    \E r \in Runs :
        /\ Saved(r)
        /\ Len(request[r].sections) = 2
        /\ response[r].summary.successful_sections = 0
        /\ response[r].summary.failed_sections = 2
        /\ scrape_sessions[<<response[r].filing_id.text,
                             response[r].session_id.text>>].failed_sections = 2

=============================================================================
